---- MODULE Spec2Model ----
(***************************************************************************)
(* The Play Console helper scripts: add_service_account.py,                *)
(* find_package.py, publish_release.py, test_example_package.py and        *)
(* test_package.py.  Each script loads a credentials file, builds the      *)
(* androidpublisher client and issues a fixed sequence of remote calls,    *)
(* one action of the model per remote call together with the code that     *)
(* handles its result.  The remote service is the environment: every       *)
(* response is chosen nondeterministically the first time a                *)
(* (package, method) pair is called and replayed afterwards.               *)
(***************************************************************************)
EXTENDS Integers, Sequences, FiniteSets, TLC

VARIABLES script, credsPresent, pc, i, m, edit_id, found_packages, ret,
          calls, out, env, run, prev

vars == <<script, credsPresent, pc, i, m, edit_id, found_packages, ret,
          calls, out, env, run, prev>>

\* ------------------------------------------------------------------------
\* Bounds

\* how many entries of the hard-coded candidate lists of test_package.py and
\* publish_release.py the loops iterate over
NumCandidates == 3

\* the same for find_package.py, which tries three methods per candidate
NumFindCandidates == 2

\* longest 'edits' collection a list response carries
MaxEdits == 2

\* ------------------------------------------------------------------------
\* Literals of the scripts

Scripts == {"find", "test", "publish", "add", "example"}

package_patterns ==
    <<"com.example.measurebowl", "com.dojo.measurebowl",
      "com.measurebowl.app", "com.measurebowl",
      "com.lawnbowls.measurebowl", "com.julian.measurebowl",
      "com.gilbertroberts.measurebowl", "com.kickybreaks.measurebowl">>

package_variations ==
    <<"com.measurebowl.app", "com.measurebowl", "com.dojo.measurebowl",
      "com.julian.measurebowl", "com.gilbertroberts.measurebowl",
      "com.kickybreaks.measurebowl", "com.dojo.lawnbowls",
      "com.measurebowl.lawnbowls", "com.lawnbowls.measurebowl">>

package_names ==
    <<"com.example.measurebowl", "com.dojo.measurebowl",
      "com.measurebowl.app", "com.measurebowl",
      "com.lawnbowls.measurebowl">>

add_package_name == "com.dojo.measurebowl"

example_package_name == "com.example.measurebowl"

service_account_email ==
    "play-console-uploader@dojo-pool.iam.gserviceaccount.com"

methodsDup == <<"edits.list", "edits.insert", "edits.list">>

\* the probe methods of list_available_apps, in the order they are tried
methods == <<"edits.list", "edits.insert", "reviews.list">>

Min(a, b) == IF a < b THEN a ELSE b

Prefix(s, n) == SubSeq(s, 1, Min(n, Len(s)))

\* the candidate sequence a script iterates over
Candidates(s) ==
    CASE s = "find"    -> Prefix(package_patterns, NumFindCandidates)
      [] s = "test"    -> Prefix(package_variations, NumCandidates)
      [] s = "publish" -> Prefix(package_names, NumCandidates)
      [] s = "add"     -> <<add_package_name>>
      [] s = "example" -> <<example_package_name>>

\* the remote methods a script calls for one candidate, in call order
MethodsOf(s) ==
    CASE s = "find"    -> methods
      [] s = "test"    -> <<"edits.insert">>
      [] s = "publish" -> <<"edits.list", "edits.commit">>
      [] s = "add"     -> <<"edits.get">>
      [] s = "example" -> <<"edits.insert">>

\* ------------------------------------------------------------------------
\* Remote responses

\* an edit resource whose dict has no 'id' key
NoId == 0

\* the 'edits' collections a list response may carry: empty, or n edits of
\* which the first has the id `first` (or none) and the k-th the id k
EditLists ==
    {<<>>} \cup {[k \in 1..n |-> IF k = 1 THEN first ELSE k] :
                    first \in {NoId, 1}, n \in 1..MaxEdits}

\* kind: "ok" (the call returned), "404", "403", "500" (HttpError with that
\* status) or "exc" (any other exception raised by execute()).
\* id: the 'id' field of a returned edit (NoId when the key is absent).
\* hasEdits / edits: the 'edits' key of a list response.
Response(kind, id, hasEdits, edits) ==
    [kind |-> kind, id |-> id, hasEdits |-> hasEdits, edits |-> edits]

Failure(kind) == Response(kind, NoId, FALSE, <<>>)

\* responses of edits().insert(), edits().list() and reviews().list() as the
\* probing scripts see them; the loops test the status against 404 only, so
\* 403 stands for every other HTTP status there
ProbeResponses ==
    {Response("ok", id, FALSE, <<>>) : id \in {NoId, 1}}
        \cup {Failure(k) : k \in {"404", "403", "exc"}}

\* responses of edits().list() in publish_existing_release
ListResponses ==
    {Response("ok", NoId, FALSE, <<>>)}
        \cup {Response("ok", NoId, TRUE, e) : e \in EditLists}
        \cup {Failure(k) : k \in {"404", "403", "exc"}}

\* responses of edits().commit()
CommitResponses ==
    {Response("ok", NoId, FALSE, <<>>)}
        \cup {Failure(k) : k \in {"404", "403", "exc"}}

\* responses of the single call of add_service_account / test_example_package
SingleResponses ==
    {Response("ok", id, FALSE, <<>>) : id \in {NoId, 1}}
        \cup {Failure(k) : k \in {"404", "403", "500", "exc"}}

\* the response to a call: fixed once the pair has been called
Respond(pkg, method, domain) ==
    IF <<pkg, method>> \in DOMAIN env THEN {env[<<pkg, method>>]} ELSE domain

Record(pkg, method, r) ==
    IF <<pkg, method>> \in DOMAIN env THEN env
    ELSE [k \in DOMAIN env \cup {<<pkg, method>>} |->
            IF k = <<pkg, method>> THEN r ELSE env[k]]

Call(pkg, method, editId, r) ==
    [pkg |-> pkg, method |-> method, editId |-> editId, resp |-> r]

\* ------------------------------------------------------------------------
\* Printed lines

\* a printed line: its fixed text and the values formatted into it
Line(msg, pkg, method, id, list, err) ==
    [msg |-> msg, pkg |-> pkg, method |-> method, id |-> id, list |-> list,
     err |-> err]

Say(msg) == Line(msg, "", "", NoId, <<>>, "")

SayPkg(msg, pkg) == Line(msg, pkg, "", NoId, <<>>, "")

SayMethod(msg, method) == Line(msg, "", method, NoId, <<>>, "")

SayId(msg, id) == Line(msg, "", "", id, <<>>, "")

SayErr(msg, pkg, method, err) == Line(msg, pkg, method, NoId, <<>>, err)

\* the remediation text of add_service_account.py
Remediation ==
    <<Say("Service account doesn't have access to this app."),
      Say("To fix this:"),
      Say("1. Go to https://play.google.com/console/"),
      Say("2. Navigate to Setup > API access"),
      Say("3. Find 'Service accounts' section"),
      Say("4. Click 'Link service account'"),
      SayPkg("5. Enter:", service_account_email),
      Say("6. Grant permissions:"),
      Say("   - Release apps to testing tracks"),
      Say("   - View app information and download bulk reports"),
      Say("7. Click 'Invite user'")>>

\* ------------------------------------------------------------------------
\* Exception handling

HttpStatuses == {"404", "403", "500"}

HandlerHttpOnly(raised) ==
    IF raised \in HttpStatuses THEN "HttpError" ELSE "none"

\* which except clause of the try statement catches what the body raised
Handler(raised) ==
    CASE raised \in HttpStatuses      -> "HttpError"
      [] raised \in {"exc", "KeyError"} -> "Exception"
      [] OTHER                          -> "none"

\* what execute() raises
RaisedByCall(r) == IF r.kind = "ok" THEN "none" ELSE r.kind

\* what edit['id'] raises
RaisedById(id) == IF id = NoId THEN "KeyError" ELSE "none"

\* ------------------------------------------------------------------------
\* Start of a run

Init ==
    /\ script \in Scripts
    /\ credsPresent \in BOOLEAN
    /\ pc = "start"
    /\ i = 1
    /\ m = 1
    /\ edit_id = NoId
    /\ found_packages = <<>>
    /\ ret = "unset"
    /\ calls = <<>>
    /\ out = <<>>
    /\ env = [k \in {} |-> Failure("404")]
    /\ run = 1
    /\ prev = [calls |-> <<>>, out |-> <<>>, ret |-> "unset"]

LoadOutcomeNoCheck(s, present) == "ok"

\* loading the key file: add_service_account tests os.path.exists and returns
\* False; the other scripts call from_service_account_file directly, which
\* raises on a missing file, outside any try statement
LoadOutcome(s, present) ==
    IF present THEN "ok"
    ELSE IF s = "add" THEN "return" ELSE "raise"

\* what a script prints between building the client and its first call
Banner(s) ==
    CASE s = "find"    -> <<Say("Service account:"),
                            Say("Testing different approaches to find apps...")>>
      [] s = "test"    -> <<Say("Testing common package name variations...")>>
      [] s = "publish" -> <<>>
      [] s = "add"     -> <<SayPkg("Attempting to add service account:",
                                   service_account_email),
                            SayPkg("To package:", add_package_name),
                            Say("Testing service account access...")>>
      [] s = "example" -> <<SayPkg("Testing access to package:",
                                   example_package_name)>>

KeepFoundPackages(old) == old

\* found_packages = [] on entry of list_available_apps
FreshFoundPackages(old) == <<>>

LoadCredentials ==
    /\ pc = "start"
    /\ LET o == LoadOutcome(script, credsPresent)
       IN  /\ pc' = CASE o = "ok"     -> "probe"
                      [] o = "return" -> "done"
                      [] OTHER        -> "crashed"
           /\ ret' = IF o = "return" THEN "False" ELSE ret
           /\ out' = out \o
                (CASE o = "ok"     -> Banner(script)
                   [] o = "return" ->
                        <<Say("Error: Credentials file not found")>>
                   [] OTHER        -> <<>>)
    /\ i' = 1
    /\ m' = 1
    /\ found_packages' = FreshFoundPackages(found_packages)
    /\ UNCHANGED <<script, credsPresent, edit_id, calls, env, run, prev>>

\* what the __main__ block prints with the function's result
MainPrints(s, result) ==
    CASE s = "find" ->
            IF result # "None"
            THEN <<SayPkg("Use this package name:", result)>>
            ELSE <<Say("Could not find any accessible packages")>>
      [] s = "test" ->
            IF result # "None"
            THEN <<SayPkg("SUCCESS! Use package name:", result),
                   Say("Update the Fastfile with this package name.")>>
            ELSE <<>>
      [] OTHER -> <<>>

\* ------------------------------------------------------------------------
\* find_package.py: list_available_apps

\* responses of the three probe methods; the result is only dumped, no field
\* of it is read
FindResponses ==
    {Response("ok", 1, FALSE, <<>>)}
        \cup {Failure(k) : k \in {"404", "403", "exc"}}

FindBreaksNever(raised) == FALSE

FindBreaksOn403(raised) == raised \in {"none", "403"}

FindBreaksOn404(raised) == raised \in {"none", "404"}

\* the break that ends the method loop of a candidate
FindBreaks(raised) == raised = "none"

FindPrints(method_name, r, raised) ==
    CASE raised = "none" ->
            <<SayMethod("succeeded!", method_name), SayId("Result:", r.id)>>
      [] raised = "404"  ->
            <<SayMethod("Package not found", method_name)>>
      [] OTHER ->
            IF Handler(raised) = "none" THEN <<>>
            ELSE <<SayErr("warning", "", method_name, raised)>>

FindProbe ==
    /\ script = "find"
    /\ pc = "probe"
    /\ i <= Len(Candidates("find"))
    /\ LET package_name == Candidates("find")[i]
           method_name  == methods[m]
       IN  \E r \in Respond(package_name, method_name, FindResponses) :
             LET raised == RaisedByCall(r)
             IN  /\ calls' = Append(calls,
                                Call(package_name, method_name, NoId, r))
                 /\ env' = Record(package_name, method_name, r)
                 /\ out' = out
                        \o (IF m = 1
                            THEN <<SayPkg("Testing package:", package_name)>>
                            ELSE <<>>)
                        \o FindPrints(method_name, r, raised)
                 /\ found_packages' =
                        IF raised = "none"
                        THEN Append(found_packages, package_name)
                        ELSE found_packages
                 /\ IF raised # "none" /\ Handler(raised) = "none"
                    THEN pc' = "crashed" /\ UNCHANGED <<i, m>>
                    ELSE /\ pc' = pc
                         /\ IF FindBreaks(raised) \/ m = Len(methods)
                            THEN i' = i + 1 /\ m' = 1
                            ELSE i' = i /\ m' = m + 1
    /\ UNCHANGED <<script, credsPresent, edit_id, ret, run, prev>>

FindFinish ==
    /\ script = "find"
    /\ pc = "probe"
    /\ i > Len(Candidates("find"))
    /\ LET result == IF found_packages # <<>>
                     THEN found_packages[1] ELSE "None"
       IN  /\ ret' = result
           /\ out' = out
                \o (IF found_packages # <<>>
                    THEN <<Line("Found accessible packages:", "", "", NoId,
                                found_packages, "")>>
                    ELSE <<Say("No accessible packages found")>>)
                \o MainPrints("find", result)
    /\ pc' = "done"
    /\ UNCHANGED <<script, credsPresent, i, m, edit_id, found_packages,
                   calls, env, run, prev>>

\* ------------------------------------------------------------------------
\* test_package.py: test_package_variations

TestReturnsNever(raised) == FALSE

\* the return inside the loop, reached when the try body raised nothing
TestReturns(raised) == raised = "none"

TestProbe ==
    /\ script = "test"
    /\ pc = "probe"
    /\ i <= Len(Candidates("test"))
    /\ LET package_name == Candidates("test")[i]
       IN  \E r \in Respond(package_name, "edits.insert", ProbeResponses) :
             LET raisedCall == RaisedByCall(r)
                 raised == IF raisedCall # "none" THEN raisedCall
                           ELSE RaisedById(r.id)
                 body == IF raisedCall # "none" THEN <<>>
                         ELSE <<SayPkg("FOUND: Package exists!", package_name)>>
                                \o (IF raised = "none"
                                    THEN <<SayId("Edit ID:", r.id)>>
                                    ELSE <<>>)
                 handled ==
                     CASE raised = "none" -> <<>>
                       [] raised = "404"  ->
                            <<SayPkg("Package not found", package_name)>>
                       [] OTHER ->
                            IF Handler(raised) = "none" THEN <<>>
                            ELSE <<SayErr("Error testing", package_name, "",
                                          raised)>>
             IN  /\ calls' = Append(calls,
                                Call(package_name, "edits.insert", NoId, r))
                 /\ env' = Record(package_name, "edits.insert", r)
                 /\ IF raised # "none" /\ Handler(raised) = "none"
                    THEN /\ pc' = "crashed"
                         /\ out' = out \o body
                         /\ UNCHANGED <<i, ret>>
                    ELSE IF TestReturns(raised)
                    THEN /\ pc' = "done"
                         /\ ret' = package_name
                         /\ out' = out \o body
                                       \o MainPrints("test", package_name)
                         /\ UNCHANGED i
                    ELSE /\ pc' = pc
                         /\ i' = i + 1
                         /\ out' = out \o body \o handled
                         /\ UNCHANGED ret
    /\ UNCHANGED <<script, credsPresent, m, edit_id, found_packages, run,
                   prev>>

TestFinish ==
    /\ script = "test"
    /\ pc = "probe"
    /\ i > Len(Candidates("test"))
    /\ ret' = "None"
    /\ out' = out
          \o <<Say("None of the common variations were found."),
               Say("You'll need to check the exact package name in Google Play Console.")>>
          \o MainPrints("test", "None")
    /\ pc' = "done"
    /\ UNCHANGED <<script, credsPresent, i, m, edit_id, found_packages,
                   calls, env, run, prev>>

\* ------------------------------------------------------------------------
\* publish_release.py: publish_existing_release

\* 'edits' in edits_response and edits_response['edits']
HasEdits(r) == r.hasEdits /\ r.edits # <<>>

LastEdit(edits) == edits[Len(edits)]

\* edits_response['edits'][0]
LatestEdit(edits) == edits[1]

CommitAlwaysReturns(raised) == "return"

\* after the commit call: return True, or the handler and the next candidate
CommitOutcome(raised) == IF raised = "none" THEN "return" ELSE "next"

PublishErrorPrints(package_name, raised) ==
    CASE raised = "404" -> <<SayPkg("Package not found", package_name)>>
      [] OTHER ->
            IF Handler(raised) = "none" THEN <<>>
            ELSE <<SayErr("Error with", package_name, "", raised)>>

PublishList ==
    /\ script = "publish"
    /\ pc = "probe"
    /\ i <= Len(Candidates("publish"))
    /\ LET package_name == Candidates("publish")[i]
       IN  \E r \in Respond(package_name, "edits.list", ListResponses) :
             LET raisedCall == RaisedByCall(r)
                 found == raisedCall = "none" /\ HasEdits(r)
                 raised == IF raisedCall # "none" THEN raisedCall
                           ELSE IF found THEN RaisedById(LatestEdit(r.edits))
                           ELSE "none"
                 body ==
                     IF raisedCall # "none" THEN <<>>
                     ELSE IF ~found
                     THEN <<SayPkg("No existing edits found", package_name)>>
                     ELSE <<SayPkg("Found existing edits", package_name)>>
                            \o (IF raised = "none"
                                THEN <<SayId("Latest edit ID:",
                                             LatestEdit(r.edits))>>
                                ELSE <<>>)
             IN  /\ calls' = Append(calls,
                                Call(package_name, "edits.list", NoId, r))
                 /\ env' = Record(package_name, "edits.list", r)
                 /\ out' = out \o <<SayPkg("Trying package:", package_name)>>
                               \o body
                               \o PublishErrorPrints(package_name, raised)
                 /\ IF raised # "none" /\ Handler(raised) = "none"
                    THEN pc' = "crashed" /\ UNCHANGED <<i, edit_id>>
                    ELSE IF found /\ raised = "none"
                    THEN /\ pc' = "commit"
                         /\ edit_id' = LatestEdit(r.edits)
                         /\ UNCHANGED i
                    ELSE /\ pc' = pc
                         /\ i' = i + 1
                         /\ UNCHANGED edit_id
    /\ UNCHANGED <<script, credsPresent, m, found_packages, ret, run, prev>>

PublishCommit ==
    /\ script = "publish"
    /\ pc = "commit"
    /\ LET package_name == Candidates("publish")[i]
       IN  \E r \in Respond(package_name, "edits.commit", CommitResponses) :
             LET raised == RaisedByCall(r)
             IN  /\ calls' = Append(calls,
                                Call(package_name, "edits.commit", edit_id, r))
                 /\ env' = Record(package_name, "edits.commit", r)
                 /\ IF raised # "none" /\ Handler(raised) = "none"
                    THEN /\ pc' = "crashed"
                         /\ UNCHANGED <<i, ret, out>>
                    ELSE IF CommitOutcome(raised) = "return"
                    THEN /\ pc' = "done"
                         /\ ret' = "True"
                         /\ out' = out
                              \o <<SayPkg("SUCCESS! Published release",
                                          package_name),
                                   Say("Commit response:")>>
                         /\ UNCHANGED i
                    ELSE /\ pc' = "probe"
                         /\ i' = i + 1
                         /\ out' = out
                              \o PublishErrorPrints(package_name, raised)
                         /\ UNCHANGED ret
    /\ UNCHANGED <<script, credsPresent, m, edit_id, found_packages, run,
                   prev>>

PublishFinish ==
    /\ script = "publish"
    /\ pc = "probe"
    /\ i > Len(Candidates("publish"))
    /\ ret' = "False"
    /\ out' = Append(out, Say("No existing releases found to publish"))
    /\ pc' = "done"
    /\ UNCHANGED <<script, credsPresent, i, m, edit_id, found_packages,
                   calls, env, run, prev>>

\* ------------------------------------------------------------------------
\* add_service_account.py: add_service_account_to_play_console

\* the inner handler tests the status; the outer one catches the rest
AddPrints(raised) ==
    CASE raised = "none" -> <<Say("Service account has access to the app!")>>
      [] raised = "404"  ->
            <<SayPkg("App with package name not found.", add_package_name),
              Say("Please verify the package name matches what you created in Google Play Console.")>>
      [] raised = "403"  -> Remediation
      [] raised \in HttpStatuses -> <<SayErr("Error:", "", "", raised)>>
      [] OTHER -> <<SayErr("Unexpected error:", "", "", raised)>>

AddProbe ==
    /\ script = "add"
    /\ pc = "probe"
    /\ \E r \in Respond(add_package_name, "edits.get", SingleResponses) :
         LET raised == RaisedByCall(r)
         IN  /\ calls' = Append(calls,
                            Call(add_package_name, "edits.get", NoId, r))
             /\ env' = Record(add_package_name, "edits.get", r)
             /\ out' = out \o AddPrints(raised)
             /\ ret' = IF raised = "none" THEN "True" ELSE "False"
    /\ pc' = "done"
    /\ UNCHANGED <<script, credsPresent, i, m, edit_id, found_packages, run,
                   prev>>

\* ------------------------------------------------------------------------
\* test_example_package.py: test_example_package

ExampleProbe ==
    /\ script = "example"
    /\ pc = "probe"
    /\ \E r \in Respond(example_package_name, "edits.insert",
                        SingleResponses) :
         LET raisedCall == RaisedByCall(r)
             raised == IF raisedCall # "none" THEN raisedCall
                       ELSE RaisedById(r.id)
             body == IF raisedCall # "none" THEN <<>>
                     ELSE <<SayPkg("SUCCESS: Package exists!",
                                   example_package_name)>>
                            \o (IF raised = "none"
                                THEN <<SayId("Edit ID:", r.id)>> ELSE <<>>)
             handled ==
                 CASE raised = "none" -> <<>>
                   [] raised = "404"  ->
                        <<SayPkg("ERROR: Package not found",
                                 example_package_name),
                          Say("This means either:"),
                          Say("1. The app wasn't created with this package name"),
                          Say("2. The service account doesn't have access to this app")>>
                   [] OTHER -> <<SayErr("ERROR:", "", "", raised)>>
         IN  /\ calls' = Append(calls,
                            Call(example_package_name, "edits.insert", NoId, r))
             /\ env' = Record(example_package_name, "edits.insert", r)
             /\ out' = out \o body \o handled
             /\ ret' = IF raised = "none" THEN "True" ELSE "False"
    /\ pc' = "done"
    /\ UNCHANGED <<script, credsPresent, i, m, edit_id, found_packages, run,
                   prev>>

\* ------------------------------------------------------------------------
\* A second run of the same script against the same remote responses: the
\* process is new, the files and the remote service are the same

Rerun ==
    /\ run = 1
    /\ pc \in {"done", "crashed"}
    /\ run' = 2
    /\ prev' = [calls |-> calls, out |-> out, ret |-> ret]
    /\ pc' = "start"
    /\ calls' = <<>>
    /\ out' = <<>>
    /\ ret' = "unset"
    /\ UNCHANGED <<script, credsPresent, i, m, edit_id, found_packages, env>>

Next ==
    \/ LoadCredentials
    \/ FindProbe
    \/ FindFinish
    \/ TestProbe
    \/ TestFinish
    \/ PublishList
    \/ PublishCommit
    \/ PublishFinish
    \/ AddProbe
    \/ ExampleProbe

Spec == Init /\ [][Next]_vars

NextTwice == Next \/ Rerun

SpecTwice == Init /\ [][NextTwice]_vars

\* ------------------------------------------------------------------------
\* Reading the log of remote calls

CallIdx == 1..Len(calls)

\* position of the first occurrence of x in seq
IndexIn(seq, x) ==
    CHOOSE k \in 1..Len(seq) :
        seq[k] = x /\ \A j \in 1..(k - 1) : seq[j] # x

CandIdx(c) == IndexIn(Candidates(script), c.pkg)

MethIdx(c) == IndexIn(MethodsOf(script), c.method)

NumCands == Len(Candidates(script))

Before(a, b) ==
    \/ CandIdx(a) < CandIdx(b)
    \/ CandIdx(a) = CandIdx(b) /\ MethIdx(a) < MethIdx(b)

IsCommit(c) == c.method = "edits.commit"

Printed(line) == \E k \in 1..Len(out) : out[k] = line

EndsWith(s, t) ==
    Len(t) <= Len(s) /\ SubSeq(s, Len(s) - Len(t) + 1, Len(s)) = t

Contains(s, t) ==
    \E k \in 0..(Len(s) - Len(t)) : SubSeq(s, k + 1, k + Len(t)) = t

IsPrefix(s, t) == Len(s) <= Len(t) /\ s = SubSeq(t, 1, Len(s))

\* the call that follows call c in list_available_apps when c did not end
\* the method loop: the next method, or the first method of the next candidate
FindSuccessor(c, d) ==
    IF MethIdx(c) < Len(methods)
    THEN d.pkg = c.pkg /\ MethIdx(d) = MethIdx(c) + 1
    ELSE CandIdx(d) = CandIdx(c) + 1 /\ MethIdx(d) = 1

\* ------------------------------------------------------------------------
\* C1: in publish_existing_release a commit call is issued for a package
\* only directly after edits().list() for that package returned a response
\* whose 'edits' collection is present and non-empty, its editId is the 'id'
\* of the first element of that collection, and a package whose list call
\* failed or returned no edits gets no commit.
C1_CommitOnlyAfterNonEmptyList ==
    script = "publish" =>
        /\ \A j \in CallIdx :
             IsCommit(calls[j]) =>
                /\ j > 1
                /\ calls[j - 1].method = "edits.list"
                /\ calls[j - 1].pkg = calls[j].pkg
                /\ calls[j - 1].resp.kind = "ok"
                /\ calls[j - 1].resp.hasEdits
                /\ calls[j - 1].resp.edits # <<>>
                /\ calls[j].editId = calls[j - 1].resp.edits[1]
                /\ calls[j].editId # NoId
        /\ \A k \in CallIdx :
             (/\ calls[k].method = "edits.list"
              /\ \/ calls[k].resp.kind # "ok"
                 \/ ~calls[k].resp.hasEdits
                 \/ calls[k].resp.edits = <<>>)
                => \A j \in CallIdx :
                     ~(IsCommit(calls[j]) /\ calls[j].pkg = calls[k].pkg)

C1_Witness ==
    /\ script = "publish"
    /\ \E j \in CallIdx :
         /\ IsCommit(calls[j])
         /\ j > 1
         /\ Len(calls[j - 1].resp.edits) = 2
         /\ calls[j - 1].resp.edits[1] # calls[j - 1].resp.edits[2]
         /\ calls[j].editId = calls[j - 1].resp.edits[1]

C4_ExhaustedOnAllNotFound ==
    (/\ pc = "done"
     /\ script \in {"find", "test", "publish"}
     /\ \A j \in CallIdx : calls[j].resp.kind = "404")
        => /\ ret = (IF script = "publish" THEN "False" ELSE "None")
           /\ \A j \in CallIdx : ~IsCommit(calls[j])
           /\ LET probes == IF script = "find" THEN methods
                            ELSE <<MethodsOf(script)[1]>>
              IN  /\ Len(calls) = NumCands * Len(probes)
                  /\ \A c \in 1..NumCands : \A k \in 1..Len(probes) :
                        LET call == calls[(c - 1) * Len(probes) + k]
                        IN  /\ call.pkg = Candidates(script)[c]
                            /\ call.method = probes[k]
           /\ CASE script = "find" ->
                     Printed(Say("No accessible packages found"))
                [] script = "test" ->
                     Printed(Say("None of the common variations were found."))
                [] OTHER ->
                     Printed(Say("No existing releases found to publish"))

C4_Witness ==
    /\ pc = "done"
    /\ script = "find"
    /\ Len(calls) = NumCands * Len(methods)
    /\ \A j \in CallIdx : calls[j].resp.kind = "404"
    /\ ret = "None"

\* C5: in a run in which the credentials file is missing no remote call is
\* issued: add_service_account returns False at once, every other script
\* ends on the exception of the loader.
C5_NoCallWithoutCredentials ==
    ~credsPresent =>
        /\ calls = <<>>
        /\ DOMAIN env = {}
        /\ pc \in {"start", "done", "crashed"}
        /\ pc = "done" => (script = "add" /\ ret = "False")
        /\ pc = "crashed" => script # "add"

C5_Witness ==
    /\ ~credsPresent
    /\ script = "find"
    /\ pc = "crashed"
    /\ calls = <<>>

\* C6: a second run of list_available_apps or test_package_variations against
\* the same responses issues the same calls, prints the same lines and
\* returns the same candidate as the first run.
C6_SecondRunIdentical ==
    (run = 2 /\ script \in {"find", "test"}) =>
        /\ IsPrefix(calls, prev.calls)
        /\ IsPrefix(out, prev.out)
        /\ pc \in {"done", "crashed"} =>
              /\ calls = prev.calls
              /\ out = prev.out
              /\ ret = prev.ret

C6_Witness ==
    /\ run = 2
    /\ script = "find"
    /\ pc = "done"
    /\ Len(calls) >= Len(methods)
    /\ Len(found_packages) = NumCands
    /\ calls = prev.calls

\* C7: the probe calls of a run are strictly increasing in (candidate index,
\* method index) order, so no (candidate, method) pair is called twice;
\* list_available_apps issues at most |candidates| x |methods| calls and
\* test_package_variations at most |candidates|.
C7_ProbeOrder ==
    /\ \A j \in CallIdx :
         /\ calls[j].pkg = Candidates(script)[CandIdx(calls[j])]
         /\ j < Len(calls) => Before(calls[j], calls[j + 1])
    /\ script = "find" => Len(calls) <= NumFindCandidates * Len(methods)
    /\ script = "test" => Len(calls) <= NumCandidates

C7_Witness ==
    /\ script = "find"
    /\ Len(calls) = NumFindCandidates * Len(methods)
    /\ calls[1].method = "edits.list"
    /\ calls[2].method = "edits.insert"
    /\ calls[3].method = "reviews.list"
    /\ calls[4].pkg = package_patterns[2]

\* C8 as stated: once a commit call has been issued, whether it succeeded or
\* failed, the run of publish_existing_release issues no further remote call.
C8_CommitTerminalAsStated ==
    script = "publish" =>
        \A j \in CallIdx : IsCommit(calls[j]) => j = Len(calls)

\* C8 as amended: a successful commit is terminal (True is returned and no
\* further remote call is issued); a failed commit is not: its error is
\* printed, the commit is not retried, and the run goes on to list the edits
\* of the next candidate, which may lead to another commit; False is returned
\* only after the last candidate.
C8_CommitOutcomes ==
    script = "publish" =>
        /\ \A j \in CallIdx :
             IsCommit(calls[j]) =>
                IF calls[j].resp.kind = "ok"
                THEN /\ j = Len(calls)
                     /\ pc = "done"
                     /\ ret = "True"
                ELSE /\ j < Len(calls) =>
                          /\ calls[j + 1].method = "edits.list"
                          /\ CandIdx(calls[j + 1]) = CandIdx(calls[j]) + 1
                     /\ j = Len(calls) =>
                          /\ pc \in {"probe", "done"}
                          /\ ret # "True"
                          /\ pc = "done" => CandIdx(calls[j]) = NumCands
        /\ \A j, k \in CallIdx :
             (j < k /\ IsCommit(calls[j]) /\ IsCommit(calls[k]))
                => calls[j].pkg # calls[k].pkg
        /\ ret = "True" =>
             (calls # <<>> /\ IsCommit(calls[Len(calls)])
                /\ calls[Len(calls)].resp.kind = "ok")
        /\ pc = "commit" =>
             (calls # <<>> /\ calls[Len(calls)].method = "edits.list")

C8_Witness ==
    /\ script = "publish"
    /\ pc = "done"
    /\ \E j, k \in CallIdx :
         /\ j < k
         /\ IsCommit(calls[j])
         /\ calls[j].resp.kind # "ok"
         /\ IsCommit(calls[k])
         /\ calls[k].resp.kind = "ok"

\* whether handling call j ended in an except clause
Failed(j) ==
    \/ calls[j].resp.kind # "ok"
    \/ script = "test" /\ calls[j].resp.id = NoId
    \/ /\ script = "publish"
       /\ calls[j].method = "edits.list"
       /\ calls[j].resp.hasEdits
       /\ calls[j].resp.edits # <<>>
       /\ calls[j].resp.edits[1] = NoId

\* what was raised while handling call j
RaisedAt(j) ==
    IF calls[j].resp.kind # "ok" THEN calls[j].resp.kind ELSE "KeyError"

\* C9: in the loops of list_available_apps, test_package_variations and
\* publish_existing_release every failure of a remote call, and every
\* exception raised while reading its response, is caught and printed and
\* the loop goes on; no such error leaves the function, which always
\* returns a value.
C9_ErrorsCaughtLocally ==
    /\ credsPresent => pc # "crashed"
    /\ pc = "done" => ret # "unset"
    /\ pc \in {"start", "probe", "commit"} => ENABLED Next
    /\ script \in {"find", "test", "publish"} =>
         \A j \in CallIdx :
            Failed(j) =>
               /\ \E k \in 1..Len(out) :
                     /\ out[k].err = (IF RaisedAt(j) = "404" THEN ""
                                      ELSE RaisedAt(j))
                     /\ out[k].msg \in {"Package not found", "warning",
                                        "Error testing", "Error with"}
                     /\ \/ out[k].pkg = calls[j].pkg
                        \/ script = "find" /\ out[k].method = calls[j].method
               /\ j < Len(calls) =>
                     IF script = "find"
                     THEN FindSuccessor(calls[j], calls[j + 1])
                     ELSE CandIdx(calls[j + 1]) = CandIdx(calls[j]) + 1
               /\ (j = Len(calls) /\ pc = "done") =>
                     /\ CandIdx(calls[j]) = NumCands
                     /\ ret \in {"None", "False"} \/ script = "find"

C9_Witness ==
    /\ script = "test"
    /\ pc = "done"
    /\ ret = "None"
    /\ Len(calls) = NumCands
    /\ calls[1].resp.kind = "ok"
    /\ calls[2].resp.kind = "exc"
    /\ calls[3].resp.kind = "403"

\* C10: list_available_apps issues edits().insert() for a candidate only
\* directly after edits().list() failed for it, tries no further method for
\* a candidate once one succeeded, keeps in found_packages each candidate
\* with a successful method once and in list order, and returns the earliest
\* of them.
C10_FindOrder ==
    script = "find" =>
        /\ \A j \in CallIdx :
             calls[j].method = "edits.insert" =>
                /\ j > 1
                /\ calls[j - 1].pkg = calls[j].pkg
                /\ calls[j - 1].method = "edits.list"
                /\ calls[j - 1].resp.kind # "ok"
        /\ \A j, k \in CallIdx :
             (j < k /\ calls[j].resp.kind = "ok")
                => calls[k].pkg # calls[j].pkg
        /\ \A a, b \in 1..Len(found_packages) :
             a < b => IndexIn(package_patterns, found_packages[a])
                         < IndexIn(package_patterns, found_packages[b])
        /\ \A c \in 1..NumCands :
             (\E a \in 1..Len(found_packages) :
                 found_packages[a] = package_patterns[c])
                <=> (\E j \in CallIdx :
                        calls[j].pkg = package_patterns[c]
                           /\ calls[j].resp.kind = "ok")
        /\ pc = "done" =>
             IF \E j \in CallIdx : calls[j].resp.kind = "ok"
             THEN \E j \in CallIdx :
                     /\ calls[j].resp.kind = "ok"
                     /\ ret = calls[j].pkg
                     /\ \A k \in 1..(j - 1) : calls[k].resp.kind # "ok"
             ELSE ret = "None"

C10_Witness ==
    /\ script = "find"
    /\ pc = "done"
    /\ Len(found_packages) = 2
    /\ ret = package_patterns[1]
    /\ \E j \in CallIdx :
         calls[j].method = "edits.insert" /\ calls[j].resp.kind = "ok"
    /\ \E j \in CallIdx :
         calls[j].method = "reviews.list" /\ calls[j].resp.kind = "ok"

====
